---------------------------- MODULE Spec2Model ----------------------------
(***************************************************************************)
(* Model of the fleet snapshot collector (backend/services/collector.py),   *)
(* of the read-through cache tier and of the subscription rate limiter     *)
(* (backend/main.py).                                                      *)
(*                                                                         *)
(* Time is counted in whole seconds and passes while the scheduler loop    *)
(* sleeps; the panel calls of one tick complete within the second, except  *)
(* under SpecStall, where a panel call can block for longer.               *)
(* Strings of the program that are compared with each other (the JSON      *)
(* fingerprint) are modelled as sequences, so that the empty string is the *)
(* empty sequence.                                                         *)
(***************************************************************************)
EXTENDS Integers, Sequences, FiniteSets, TLC

VARIABLES
    cfg,          \* SnapshotCollector's configuration after __init__
    env,          \* what this run explores: registry content, panel replies,
                  \* sleep lengths and the last clock value
    now,          \* time.time(), in seconds
    running,      \* SnapshotCollector._running
    loop,         \* position of the _run task
    node_state,   \* SnapshotCollector._node_state: key -> PerNodeState
    latest,       \* SnapshotCollector._latest: [timestamp, nodes]
    polls,        \* the _poll_node tasks of the current gather, by descriptor id
    permits,      \* free permits of the semaphore created by _run
    listed,       \* history: keys named by the last registry read that returned
    hist,         \* history: per key, what the polls since its discovery saw
    view,         \* the cached view this run reads, and whether REDIS_URL is set
    redis,        \* the distributed cache: key -> [value, expires]
    traffic_stats_cache,   \* main.traffic_stats_cache: group_by -> <<ts, data>>
    online_clients_cache,  \* main.online_clients_cache
    clients_cache,         \* main.clients_cache
    cache_refresh_state,   \* main.cache_refresh_state
    readers,      \* the request being served: position and locals
    refreshers,   \* the background refresh threads, per flag
    limits,       \* SUB_RATE_LIMIT_COUNT and SUB_RATE_LIMIT_WINDOW_SEC of this
                  \* run, and the requests and clock steps it explores
    subscription_rate_state,  \* main.subscription_rate_state: key -> deque
    admitted,     \* history: per key, the timestamps allowed in the last window
    verdict,      \* history: per key, what the last call returned
    active_connections,  \* ConnectionManager.active_connections
    subscriptions,       \* ConnectionManager.subscriptions
    cast,         \* the broadcast in progress or the last one: its iterator,
                  \* its locals and, as history, whom it served
    _task,         \* SnapshotCollector._task
    tasks,        \* the _run tasks created so far: id -> state
    stops,        \* the stop() calls that await the task they cancelled
    settings,     \* READ_ONLY_MODE and MFA_TOTP_ENABLED of the process
    exchange      \* the last HTTP request and what the middleware did with it

collectorVars ==
    <<cfg, env, running, loop, node_state, latest, polls, permits, listed,
      hist>>

cacheVars ==
    <<view, redis, traffic_stats_cache, online_clients_cache, clients_cache,
      cache_refresh_state, readers, refreshers>>

rateVars == <<limits, subscription_rate_state, admitted, verdict>>

fanVars == <<active_connections, subscriptions, cast>>

lifeVars == <<_task, tasks, stops>>

httpVars == <<settings, exchange>>

-----------------------------------------------------------------------------
(* Bounds of the exploration.                                              *)

MaxTime == 1
MaxTasks == 4
MaxSleep == 1
ScenarioHorizon == 72
ScenarioNap == 5
StartupTime == 1000
CacheSlack == 10
RateSlack == 1
StallNap == 6
StallPasses == 2

Min(a, b) == IF a <= b THEN a ELSE b
Max(a, b) == IF a >= b THEN a ELSE b

RECURSIVE Pow2(_)
Pow2(n) == IF n = 0 THEN 1 ELSE 2 * Pow2(n - 1)

-----------------------------------------------------------------------------
(* Configuration: SnapshotCollector.__init__                               *)

DefaultBaseInterval == 5
DefaultMaxInterval == 60
DefaultMinInterval == 3
DefaultMaxParallel == 8

BaseChoices == {0, 1, DefaultBaseInterval}
MaxChoices == {0, DefaultMaxInterval}
MinChoices == {0, DefaultMinInterval, 100}
ParallelChoices == {0, 2}

Construct(base, maxi, mini, par) ==
    LET b == Max(1, base) IN
    [base_interval_sec |-> b,
     max_interval_sec |-> Max(b, maxi),
     min_interval_sec |-> Max(1, mini),
     max_parallel_polls |-> Max(1, par)]

-----------------------------------------------------------------------------
(* Node descriptors and the panel client                                   *)

Descriptors ==
    { [id |-> 1, name |-> "a"],
      [id |-> 2, name |-> "b"],
      [id |-> 3, name |-> "a"] }

\* str(node.get("name", node.get("id", "")))
NodeKey(node) ==
    IF "name" \in DOMAIN node THEN node.name ELSE ToString(node.id)

Keys == {NodeKey(d) : d \in Descriptors}

\* What the three panel calls of one poll give: an exception, or the
\* facts _collect_node_snapshot extracts from the replies.
PanelRaises ==
    [raised |-> TRUE, available |-> FALSE, xray |-> FALSE, cpu |-> 0,
     online |-> 0, traffic |-> 0]
PanelUnavailable ==
    [raised |-> FALSE, available |-> FALSE, xray |-> FALSE, cpu |-> 0,
     online |-> 0, traffic |-> 0]
PanelIdle ==
    [raised |-> FALSE, available |-> TRUE, xray |-> TRUE, cpu |-> 0,
     online |-> 0, traffic |-> 0]
PanelBusy ==
    [raised |-> FALSE, available |-> TRUE, xray |-> TRUE, cpu |-> 1,
     online |-> 1, traffic |-> 7]

PanelReplies == {PanelRaises, PanelUnavailable, PanelIdle, PanelBusy}

CollectNodeSnapshot(node, reply, t) ==
    LET name == IF "name" \in DOMAIN node THEN node.name ELSE "unknown" IN
    IF reply.raised
    THEN [name |-> name, node_id |-> node.id, available |-> FALSE,
          xray_running |-> FALSE, cpu |-> 0, online_clients |-> 0,
          traffic_total |-> 0, timestamp |-> t, error |-> "exc"]
    ELSE [name |-> name, node_id |-> node.id, available |-> reply.available,
          xray_running |-> reply.xray, cpu |-> reply.cpu,
          online_clients |-> reply.online, traffic_total |-> reply.traffic,
          timestamp |-> t]

\* json.dumps(snapshot, sort_keys=True): the members in key order.
JsonDumps(s) ==
    << <<"available", s.available>>, <<"cpu", s.cpu>> >>
    \o (IF "error" \in DOMAIN s THEN << <<"error", s.error>> >> ELSE << >>)
    \o << <<"name", s.name>>, <<"node_id", s.node_id>>,
          <<"online_clients", s.online_clients>>,
          <<"timestamp", s.timestamp>>,
          <<"traffic_total", s.traffic_total>>,
          <<"xray_running", s.xray_running>> >>

EmptyHash == << >>

-----------------------------------------------------------------------------
(* Adaptive interval: _poll_node lines 122-128                             *)

\* A variant that starts the boost one step up, against which the interval
\* of a recovered node is tried.
StableBoostFromTwo(stable_cycles) == Min(4, 2 + stable_cycles \div 3)

StableBoost(stable_cycles) == Min(4, 1 + stable_cycles \div 3)

\* A variant without the lower clamp, against which the clamp property is
\* tried.
SuccessIntervalNoFloor(stable_cycles) ==
    Min(cfg.max_interval_sec, cfg.base_interval_sec * StableBoost(stable_cycles))

SuccessInterval(stable_cycles) ==
    Min(cfg.max_interval_sec,
        Max(cfg.min_interval_sec,
            cfg.base_interval_sec * StableBoost(stable_cycles)))

\* A variant that starts the doubling one failure late, against which the
\* backoff scenario is tried.
FailureIntervalOffByOne(failures) ==
    Min(cfg.max_interval_sec,
        cfg.base_interval_sec * Pow2(Min(failures - 1, 4)))

FailureInterval(failures) ==
    Min(cfg.max_interval_sec, cfg.base_interval_sec * Pow2(Min(failures, 4)))

NewNodeState ==
    [next_poll |-> 0, interval |-> cfg.base_interval_sec, failures |-> 0,
     stable_cycles |-> 0, last_hash |-> EmptyHash]

-----------------------------------------------------------------------------
(* Delta messages: _broadcast_delta                                        *)

DeltaTrackedFields ==
    {"available", "xray_running", "cpu", "online_clients", "traffic_total"}

NoDelta == << >>

\* A variant that reports every tracked field, against which the content of
\* the changes map is tried.
DeltaChangesOfEveryField(previous, snapshot) ==
    [f \in DeltaTrackedFields |-> [old |-> previous[f], new |-> snapshot[f]]]

\* Lines 182-189.
DeltaChanges(previous, snapshot) ==
    LET differing == {f \in DeltaTrackedFields : previous[f] # snapshot[f]} IN
    [f \in differing |-> [old |-> previous[f], new |-> snapshot[f]]]

BuildDelta(key, snapshot) ==
    IF key \in DOMAIN latest.nodes
    THEN [node |-> key, snapshot |-> snapshot,
          changes |-> DeltaChanges(latest.nodes[key], snapshot)]
    ELSE [node |-> key, snapshot |-> snapshot]

DeltaMessage(key, snapshot) ==
    [type |-> "snapshot_delta", channel |-> "snapshot_delta",
     data |-> BuildDelta(key, snapshot), timestamp |-> now]

-----------------------------------------------------------------------------
(* Initial states                                                          *)

NoSnapshot == << >>

NoTimestamp == -1

NoHistory == [polls |-> 0, streak |-> 0, prior |-> 0]

InitCollector(configs, explored) ==
    /\ cfg \in configs
    /\ env = explored
    /\ running = FALSE
    /\ loop = "none"
    /\ node_state = << >>
    /\ latest = [timestamp |-> NoTimestamp, nodes |-> << >>]
    /\ polls = << >>
    /\ permits = 0
    /\ listed = {}
    /\ hist = [k \in Keys |-> NoHistory]

AcceptedConfigs ==
    { Construct(b, m, n, p) :
        b \in BaseChoices, m \in MaxChoices, n \in MinChoices,
        p \in ParallelChoices }

\* The configuration main.py builds when no environment variable is set.
DefaultConfig ==
    Construct(DefaultBaseInterval, DefaultMaxInterval, DefaultMinInterval,
              DefaultMaxParallel)

-----------------------------------------------------------------------------
(* The scheduler loop: start and _run                                      *)

Start ==
    /\ ~running
    /\ running' = TRUE
    /\ loop' = "fetch"
    /\ permits' = cfg.max_parallel_polls
    /\ UNCHANGED <<cfg, env, now, node_state, latest, polls, listed, hist>>

\* A variant in which the exception of the registry read ends the task,
\* against which the survival of the loop is tried.
FetchNodesRaisesUncaught ==
    /\ loop = "fetch"
    /\ loop' = "none"
    /\ UNCHANGED <<cfg, env, now, running, node_state, latest, polls,
                   permits, listed, hist>>

\* fetch_nodes raised: the except clause logs (lines 97-98) and the loop
\* goes on to its sleep.
FetchNodesRaises ==
    /\ loop = "fetch"
    /\ loop' = "caught"
    /\ UNCHANGED <<cfg, env, now, running, node_state, latest, polls,
                   permits, listed, hist>>

NewTask(node) ==
    [pc |-> "sem", node |-> node, key |-> NodeKey(node), started |-> 0,
     elapsed |-> 0, snapshot |-> NoSnapshot, curr_hash |-> EmptyHash,
     message |-> NoDelta]

Restrict(f, S) == [x \in S |-> f[x]]

\* A variant that forgets nothing, against which the removal property is
\* tried.
DropStaleKeepsTable(table, stale) == table

\* Lines 74-77: self._latest["nodes"].pop(stale, None) for every stale key.
DropStale(table, stale) == Restrict(table, DOMAIN table \ stale)

\* One pass of the loop body, lines 69-93: the registry read returned nodes.
Tick(nodes) ==
    LET active_names == {NodeKey(n) : n \in nodes}
        stale == DOMAIN node_state \ active_names
        states == [k \in active_names |->
                     IF k \in DOMAIN node_state THEN node_state[k]
                     ELSE NewNodeState]
        due == {n \in nodes : now >= states[NodeKey(n)].next_poll}
    IN
    /\ loop = "fetch"
    /\ node_state' = states
    /\ latest' = [latest EXCEPT !.nodes = DropStale(@, stale)]
    /\ polls' = [i \in {n.id : n \in due} |->
                   NewTask(CHOOSE n \in due : n.id = i)]
    /\ loop' = IF due = {} THEN "sleep" ELSE "gather"
    /\ listed' = active_names
    /\ hist' = [k \in Keys |->
                 IF k \in active_names /\ k \in DOMAIN node_state
                 THEN hist[k] ELSE NoHistory]
    /\ UNCHANGED <<cfg, env, now, running, permits>>

\* asyncio.gather returns once every poll of the tick has ended.
GatherDone ==
    /\ loop = "gather"
    /\ polls = << >>
    /\ loop' = "sleep"
    /\ UNCHANGED <<cfg, env, now, running, node_state, latest, polls,
                   permits, listed, hist>>

\* asyncio.sleep(1) and the time the next registry read takes.
Sleep(d) ==
    /\ loop \in {"sleep", "caught"}
    /\ now + d <= env.horizon
    /\ now' = now + d
    /\ loop' = IF running THEN "fetch" ELSE "none"
    /\ UNCHANGED <<cfg, env, running, node_state, latest, polls, permits,
                   listed, hist>>

\* The panel calls of a poll block (asyncio.to_thread at line 105 has not
\* returned) while the loop is held by asyncio.gather at line 96.
Wait(d) ==
    /\ loop = "gather"
    /\ \E i \in DOMAIN polls : polls[i].pc = "collect"
    /\ now + d <= env.horizon
    /\ now' = now + d
    /\ UNCHANGED <<cfg, env, running, loop, node_state, latest, polls,
                   permits, listed, hist>>

-----------------------------------------------------------------------------
(* One poll: _poll_node.  Between two awaits a coroutine runs atomically,  *)
(* so a poll stops only for the semaphore, for the panel calls, for the    *)
(* fan-out and for the sink.                                               *)

\* A variant that does not wait for a permit, against which the bound on
\* the outstanding polls is tried.
PollAcquireWithoutPermit(i) ==
    /\ i \in DOMAIN polls
    /\ polls[i].pc = "sem"
    /\ permits' = permits - 1
    /\ polls' = [polls EXCEPT ![i].pc = "collect", ![i].started = now]
    /\ UNCHANGED <<cfg, env, now, running, loop, node_state, latest, listed,
                   hist>>

\* Lines 103-105: the permit is taken and the panel calls start.
PollAcquire(i) ==
    /\ i \in DOMAIN polls
    /\ polls[i].pc = "sem"
    /\ permits > 0
    /\ permits' = permits - 1
    /\ polls' = [polls EXCEPT ![i].pc = "collect", ![i].started = now]
    /\ UNCHANGED <<cfg, env, now, running, loop, node_state, latest, listed,
                   hist>>

\* A variant that keeps the failure count, against which the transitions of
\* the counters are tried.
AfterSuccessKeepsFailures(state, curr_hash) ==
    LET interval == SuccessInterval(state.stable_cycles) IN
    [state EXCEPT !.last_hash = curr_hash,
                  !.interval = interval,
                  !.next_poll = now + interval]

\* Lines 118-124 and 131: what a successful poll does after the change
\* detection.
AfterSuccess(state, curr_hash) ==
    LET interval == SuccessInterval(state.stable_cycles) IN
    [state EXCEPT !.last_hash = curr_hash,
                  !.failures = 0,
                  !.interval = interval,
                  !.next_poll = now + interval]

\* Lines 126-131.
AfterFailure(state) ==
    LET failures == state.failures + 1
        interval == FailureInterval(failures) IN
    [state EXCEPT !.failures = failures,
                  !.interval = interval,
                  !.stable_cycles = 0,
                  !.next_poll = now + interval]

\* The five facts of a snapshot are those its last fingerprint recorded.
SameContent(snapshot, last_hash) ==
    \A f \in DeltaTrackedFields :
        \E j \in 1..Len(last_hash) :
            last_hash[j][1] = f /\ last_hash[j][2] = snapshot[f]

\* History of one key after a poll ran to line 131: polls counts the polls
\* since the key's discovery, streak the successful polls in a row that
\* returned the same five facts, prior the streak that the last change of
\* content ended.
Observed(h, snapshot, last_hash) ==
    IF ~snapshot.available
    THEN [polls |-> h.polls + 1, streak |-> 0, prior |-> 0]
    ELSE IF h.streak >= 1 /\ SameContent(snapshot, last_hash)
         THEN [h EXCEPT !.polls = @ + 1, !.streak = @ + 1]
         ELSE [polls |-> h.polls + 1, streak |-> 1, prior |-> h.streak]

\* Line 132.
WithPollMs(snapshot, elapsed) == snapshot @@ [poll_ms |-> elapsed * 1000]

\* Lines 105-114 or 105-134: the panel calls returned, the poll runs up to
\* its next await, which is the fan-out when the fingerprint changed and
\* the sink otherwise.
PollCollected(i, reply) ==
    /\ i \in DOMAIN polls
    /\ polls[i].pc = "collect"
    /\ LET task == polls[i]
           key == task.key
           state == node_state[key]
           snapshot == CollectNodeSnapshot(task.node, reply, now)
           elapsed == now - task.started
           curr_hash == JsonDumps(snapshot)
       IN
       IF snapshot.available
       THEN IF curr_hash # state.last_hash
            THEN /\ node_state' =
                       [node_state EXCEPT ![key].stable_cycles = 0]
                 /\ hist' = hist
                 /\ polls' = [polls EXCEPT ![i] =
                                [task EXCEPT
                                   !.pc = "broadcast",
                                   !.snapshot = snapshot,
                                   !.elapsed = elapsed,
                                   !.curr_hash = curr_hash,
                                   !.message = DeltaMessage(key, snapshot)]]
            ELSE /\ node_state' =
                       [node_state EXCEPT ![key] =
                          AfterSuccess(
                            [state EXCEPT !.stable_cycles = @ + 1],
                            curr_hash)]
                 /\ hist' = [hist EXCEPT ![key] =
                               Observed(@, snapshot, state.last_hash)]
                 /\ polls' = [polls EXCEPT ![i] =
                                [task EXCEPT
                                   !.pc = "sink",
                                   !.snapshot = WithPollMs(snapshot, elapsed),
                                   !.elapsed = elapsed,
                                   !.curr_hash = curr_hash]]
       ELSE /\ node_state' = [node_state EXCEPT ![key] = AfterFailure(state)]
            /\ hist' = [hist EXCEPT ![key] =
                          Observed(@, snapshot, state.last_hash)]
            /\ polls' = [polls EXCEPT ![i] =
                           [task EXCEPT
                              !.pc = "sink",
                              !.snapshot = WithPollMs(snapshot, elapsed),
                              !.elapsed = elapsed]]
    /\ UNCHANGED <<cfg, env, now, running, loop, latest, permits, listed>>

\* ws_manager.broadcast returned: the poll goes on with lines 118-134.
BroadcastReturns(i) ==
    /\ i \in DOMAIN polls
    /\ polls[i].pc = "broadcast"
    /\ node_state' = [node_state EXCEPT ![polls[i].key] =
                        AfterSuccess(@, polls[i].curr_hash)]
    /\ polls' = [polls EXCEPT
                   ![i].pc = "sink",
                   ![i].snapshot = WithPollMs(@, polls[i].elapsed),
                   ![i].message = NoDelta]
    /\ hist' = [hist EXCEPT ![polls[i].key] =
                  Observed(@, polls[i].snapshot,
                           node_state[polls[i].key].last_hash)]
    /\ UNCHANGED <<cfg, env, now, running, loop, latest, permits, listed>>

\* ws_manager.broadcast raised (its connection set changed while it was
\* iterating): the exception leaves _poll_node, the permit is released and
\* gather keeps the exception as the task's result.
BroadcastRaises(i) ==
    /\ i \in DOMAIN polls
    /\ polls[i].pc = "broadcast"
    /\ permits' = permits + 1
    /\ polls' = Restrict(polls, DOMAIN polls \ {i})
    /\ UNCHANGED <<cfg, env, now, running, loop, node_state, latest, listed,
                   hist>>

\* Lines 134-142: on_snapshot ran in a worker thread (an exception it
\* raises is logged), then the table entry is replaced under the lock and
\* the permit released.
SinkReturns(i, raised) ==
    /\ i \in DOMAIN polls
    /\ polls[i].pc = "sink"
    /\ raised \in BOOLEAN
    /\ latest' = [timestamp |-> now,
                  nodes |-> [k \in DOMAIN latest.nodes \cup {polls[i].key} |->
                               IF k = polls[i].key THEN polls[i].snapshot
                               ELSE latest.nodes[k]]]
    /\ permits' = permits + 1
    /\ polls' = Restrict(polls, DOMAIN polls \ {i})
    /\ UNCHANGED <<cfg, env, now, running, loop, node_state, listed, hist>>

Ids == {d.id : d \in Descriptors}

-----------------------------------------------------------------------------
(* The cache tier of main.py.  The request handlers that read the caches   *)
(* are coroutines of the event loop and call the readers without awaiting, *)
(* so one read is served at a time; the refreshes run in threads of their  *)
(* own and interleave with it.                                             *)

TRAFFIC_STATS_CACHE_TTL == 10
ONLINE_CLIENTS_CACHE_TTL == 10
TRAFFIC_STATS_STALE_TTL == 120
ONLINE_CLIENTS_STALE_TTL == 60
CLIENTS_CACHE_TTL == 20
CLIENTS_CACHE_STALE_TTL == 180

Readers == {"loop"}

\* The views: traffic statistics of one grouping, the online clients, the
\* client roster.
Views ==
    { [kind |-> "traffic", group_by |-> "client"],
      [kind |-> "online_clients", group_by |-> ""],
      [kind |-> "clients", group_by |-> ""] }

\* What the panels can report: nobody, or one of two lists.
Items == { << >>, <<"c1">>, <<"c2">> }

\* client_mgr.get_traffic_stats / get_online_clients / get_all_clients
Upstream(v, items) ==
    IF v.kind = "traffic"
    THEN [stats |-> items, group_by |-> v.group_by]
    ELSE items

\* Truth value of a Python list.
Truthy(list) == list # << >>

RedisKey(v) ==
    IF v.kind = "traffic" THEN "traffic_stats:" \o v.group_by ELSE v.kind

RedisKeys == {RedisKey(v) : v \in {w \in Views : w.kind # "clients"}}

FreshTtl(v) ==
    CASE v.kind = "traffic" -> TRAFFIC_STATS_CACHE_TTL
      [] v.kind = "online_clients" -> ONLINE_CLIENTS_CACHE_TTL
      [] v.kind = "clients" -> CLIENTS_CACHE_TTL

StaleTtl(v) ==
    CASE v.kind = "traffic" -> TRAFFIC_STATS_STALE_TTL
      [] v.kind = "online_clients" -> ONLINE_CLIENTS_STALE_TTL
      [] v.kind = "clients" -> CLIENTS_CACHE_STALE_TTL

\* The waits between the events of a run: they take an entry of the view
\* from fresh to stale and from stale to expired.
CacheNaps(v) == {FreshTtl(v), StaleTtl(v) - FreshTtl(v)}

NoResult == [kind |-> "none"]
Returned(payload) == [kind |-> "value", value |-> payload]
Raised == [kind |-> "error"]

NoEntry == [ts |-> 0, data |-> << >>]

IdleReader == [pc |-> "idle", now |-> 0, cached |-> NoEntry, result |-> NoResult]

InitCache(explored) ==
    /\ view \in explored
    /\ redis = << >>
    /\ traffic_stats_cache = << >>
    /\ online_clients_cache = NoEntry
    /\ clients_cache = NoEntry
    /\ cache_refresh_state =
          [traffic |-> {}, online_clients |-> FALSE, clients |-> FALSE]
    /\ readers = [r \in Readers |-> IdleReader]
    /\ refreshers = [working |-> 0, storing |-> << >>, finishing |-> 0,
                     failed |-> FALSE, outdated |-> FALSE, tainted |-> {}]

\* A variant that never finds a value, against which the precedence of the
\* distributed cache is tried.
RedisGetNothing(key, ok) == NoResult

\* _redis_get_json: the value under the key, None when redis is not
\* configured, holds nothing, holds an expired value, or fails.
RedisGet(key, ok) ==
    IF view.redis_url /\ ok /\ key \in DOMAIN redis /\ now < redis[key].expires
    THEN Returned(redis[key].value)
    ELSE NoResult

\* _redis_set_json: setex(key, ttl, value); a failure is logged.
RedisSet(store, key, value, ttl, ok) ==
    IF view.redis_url /\ ok
    THEN [k \in DOMAIN store \cup {key} |->
            IF k = key THEN [value |-> value, expires |-> now + ttl]
            ELSE store[k]]
    ELSE store

\* _redis_delete(*keys); a failure is logged.
RedisDelete(store, keys, ok) ==
    IF view.redis_url /\ ok
    THEN [k \in DOMAIN store \ keys |-> store[k]]
    ELSE store

\* The local entry of the view, as the reader sees it.
LocalEntry(v) ==
    CASE v.kind = "traffic" ->
           IF v.group_by \in DOMAIN traffic_stats_cache
           THEN [ts |-> traffic_stats_cache[v.group_by][1],
                 data |-> traffic_stats_cache[v.group_by][2]]
           ELSE NoEntry
      [] v.kind = "online_clients" -> online_clients_cache
      [] v.kind = "clients" -> clients_cache

\* The first test of each reader: lines 620, 644, 673.
ServesFresh(v, t) ==
    CASE v.kind = "traffic" ->
           /\ v.group_by \in DOMAIN traffic_stats_cache
           /\ t - traffic_stats_cache[v.group_by][1] < TRAFFIC_STATS_CACHE_TTL
      [] v.kind = "online_clients" ->
           t - online_clients_cache.ts < ONLINE_CLIENTS_CACHE_TTL
      [] v.kind = "clients" ->
           /\ Truthy(clients_cache.data)
           /\ t - clients_cache.ts < CLIENTS_CACHE_TTL

\* The second test of each reader: lines 624, 647, 676.
ServesStale(v, t) ==
    CASE v.kind = "traffic" ->
           /\ v.group_by \in DOMAIN traffic_stats_cache
           /\ t - traffic_stats_cache[v.group_by][1] < TRAFFIC_STATS_STALE_TTL
      [] v.kind = "online_clients" ->
           /\ Truthy(online_clients_cache.data)
           /\ t - online_clients_cache.ts < ONLINE_CLIENTS_STALE_TTL
      [] v.kind = "clients" ->
           /\ Truthy(clients_cache.data)
           /\ t - clients_cache.ts < CLIENTS_CACHE_STALE_TTL

\* The local tier of a read, lines 618-630, 643-654, 664-682: serve the
\* fresh entry, or go on to the refresh of a stale one, or to the upstream
\* computation.
LocalLookup(r) ==
    LET v == view.shows
        entry == LocalEntry(v)
    IN
    /\ readers' =
         [readers EXCEPT ![r] =
            IF ServesFresh(v, now)
            THEN [IdleReader EXCEPT !.result = Returned(entry.data)]
            ELSE IF ServesStale(v, now)
                 THEN [pc |-> "refresh", now |-> now, cached |-> entry,
                       result |-> NoResult]
                 ELSE [pc |-> "compute", now |-> now, cached |-> entry,
                       result |-> NoResult]]
    /\ UNCHANGED <<now, view, redis, traffic_stats_cache,
                   online_clients_cache, clients_cache, cache_refresh_state,
                   refreshers>>

\* A request arrives: the reader asks redis first (lines 613-616, 639-641);
\* get_cached_clients has no redis tier.
ReadBegins(r, ok) ==
    /\ readers[r].pc = "idle"
    /\ LET v == view.shows
           hit == IF v.kind = "clients" THEN NoResult
                  ELSE RedisGet(RedisKey(v), ok)
       IN
       readers' = [readers EXCEPT ![r] =
                     IF hit # NoResult
                     THEN [IdleReader EXCEPT !.result = hit]
                     ELSE [IdleReader EXCEPT !.pc = "local"]]
    /\ UNCHANGED <<now, view, redis, traffic_stats_cache,
                   online_clients_cache, clients_cache, cache_refresh_state,
                   refreshers>>

ReadLocal(r) ==
    /\ readers[r].pc = "local"
    /\ LocalLookup(r)

\* A variant that never finds the flag set, against which the single-flight
\* property is tried.
FlagNeverFound(v) == FALSE

FlagSet(v) ==
    IF v.kind = "traffic"
    THEN v.group_by \in cache_refresh_state.traffic
    ELSE cache_refresh_state[v.kind]

WithFlag(state, v, value) ==
    IF v.kind = "traffic"
    THEN [state EXCEPT !.traffic =
            IF value THEN @ \cup {v.group_by} ELSE @ \ {v.group_by}]
    ELSE [state EXCEPT ![v.kind] = value]

\* History kept with the refresh threads: outdated tells that
\* invalidate_live_stats_cache ran after the upstream call of the thread at
\* work had started; tainted names the tiers ("local", "redis") whose payload
\* was written by such a thread.  Written(tiers, by) is tainted after a
\* write to the tiers by a thread (by = outdated) or by a request
\* (by = FALSE).
Written(tiers, by) ==
    IF by THEN refreshers.tainted \cup tiers ELSE refreshers.tainted \ tiers

\* The tiers StoreStamp and StorePayload write the payload to.
StampTiers(v) == IF v.kind = "traffic" THEN {"local"} ELSE {}
PayloadTiers(v, ok) ==
    (IF v.kind = "traffic" THEN {} ELSE {"local"})
       \cup (IF v.kind # "clients" /\ view.redis_url /\ ok
             THEN {"redis"} ELSE {})

\* _start_cache_refresh, lines 583-609: under the lock, return when the flag
\* is set, set it otherwise; then start the thread.
StartCacheRefresh(r) ==
    /\ readers[r].pc = "refresh"
    /\ IF FlagSet(view.shows)
       THEN UNCHANGED <<cache_refresh_state, refreshers>>
       ELSE /\ cache_refresh_state' =
                  WithFlag(cache_refresh_state, view.shows, TRUE)
            /\ refreshers' = [refreshers EXCEPT !.working = @ + 1,
                                                !.outdated = FALSE]
    /\ readers' = [readers EXCEPT ![r].pc = "return"]
    /\ UNCHANGED <<now, view, redis, traffic_stats_cache,
                   online_clients_cache, clients_cache>>

\* Lines 630, 654, 682: the stale payload goes to the caller.
\* get_cached_online_clients reads the cache again for it.
ReturnStale(r) ==
    /\ readers[r].pc = "return"
    /\ readers' =
         [readers EXCEPT ![r] =
            [IdleReader EXCEPT !.result =
               Returned(IF view.shows.kind = "online_clients"
                        THEN online_clients_cache.data
                        ELSE readers[r].cached.data)]]
    /\ UNCHANGED <<now, view, redis, traffic_stats_cache,
                   online_clients_cache, clients_cache, cache_refresh_state,
                   refreshers>>

\* The first assignment of a store: the whole tuple of a traffic entry
\* (lines 627, 633), the time stamp of the other two (lines 650, 657, 679,
\* 685).
StoreStamp(v, ts, data) ==
    /\ traffic_stats_cache' =
         IF v.kind = "traffic"
         THEN [g \in DOMAIN traffic_stats_cache \cup {v.group_by} |->
                 IF g = v.group_by THEN <<ts, data>>
                 ELSE traffic_stats_cache[g]]
         ELSE traffic_stats_cache
    /\ online_clients_cache' =
         IF v.kind = "online_clients" THEN [online_clients_cache EXCEPT !.ts = ts]
         ELSE online_clients_cache
    /\ clients_cache' =
         IF v.kind = "clients" THEN [clients_cache EXCEPT !.ts = ts]
         ELSE clients_cache

\* The rest of a store: the payload of the online clients and of the
\* roster (lines 651, 658, 680, 686), then redis (lines 628, 634, 652, 659).
StorePayload(v, data, ok) ==
    /\ online_clients_cache' =
         IF v.kind = "online_clients"
         THEN [online_clients_cache EXCEPT !.data = data]
         ELSE online_clients_cache
    /\ clients_cache' =
         IF v.kind = "clients" THEN [clients_cache EXCEPT !.data = data]
         ELSE clients_cache
    /\ redis' = IF v.kind = "clients" THEN redis
                ELSE RedisSet(redis, RedisKey(v), data, FreshTtl(v), ok)
    /\ UNCHANGED traffic_stats_cache

\* Lines 632-633, 656-657, 684-685: the upstream computation returned; the
\* entry is stamped with the time read before it started.
ComputeReturns(r, items) ==
    /\ readers[r].pc = "compute"
    /\ LET data == Upstream(view.shows, items) IN
       /\ StoreStamp(view.shows, readers[r].now, data)
       /\ readers' = [readers EXCEPT ![r].pc = "store",
                                     ![r].result = Returned(data)]
    /\ refreshers' = [refreshers EXCEPT
                        !.tainted = Written(StampTiers(view.shows), FALSE)]
    /\ UNCHANGED <<now, view, redis, cache_refresh_state>>

\* Lines 634-635, 658-660, 686-687: the payload is stored and returned.
ComputeStores(r, ok) ==
    /\ readers[r].pc = "store"
    /\ StorePayload(view.shows, readers[r].result.value, ok)
    /\ readers' = [readers EXCEPT ![r] =
                     [IdleReader EXCEPT !.result = readers[r].result]]
    /\ refreshers' = [refreshers EXCEPT
                        !.tainted = Written(PayloadTiers(view.shows, ok), FALSE)]
    /\ UNCHANGED <<now, view, cache_refresh_state>>

\* The upstream computation raised: the request fails, nothing is stored.
ComputeRaises(r) ==
    /\ readers[r].pc = "compute"
    /\ readers' = [readers EXCEPT ![r] = [IdleReader EXCEPT !.result = Raised]]
    /\ UNCHANGED <<now, view, redis, traffic_stats_cache,
                   online_clients_cache, clients_cache, cache_refresh_state,
                   refreshers>>

RemoveAt(seq, i) == SubSeq(seq, 1, i - 1) \o SubSeq(seq, i + 1, Len(seq))

\* _refresh of a refresh thread, lines 626-627, 649-650, 678-679: the
\* upstream computation returned and the entry is stamped with the time
\* read after it.
RefreshReturns(items) ==
    /\ refreshers.working > 0
    /\ LET data == Upstream(view.shows, items) IN
       /\ StoreStamp(view.shows, now, data)
       /\ refreshers' = [refreshers EXCEPT
                           !.working = @ - 1,
                           !.storing = Append(@, data),
                           !.failed = FALSE,
                           !.tainted = Written(StampTiers(view.shows),
                                               refreshers.outdated)]
    /\ UNCHANGED <<now, view, redis, cache_refresh_state, readers>>

\* Lines 628, 651-652, 680: the thread stores the payload.
RefreshStores(i, ok) ==
    /\ i \in DOMAIN refreshers.storing
    /\ StorePayload(view.shows, refreshers.storing[i], ok)
    /\ refreshers' = [refreshers EXCEPT
                        !.storing = RemoveAt(@, i),
                        !.finishing = @ + 1,
                        !.tainted = Written(PayloadTiers(view.shows, ok),
                                            refreshers.outdated)]
    /\ UNCHANGED <<now, view, cache_refresh_state, readers>>

\* The worker raised: _runner logs it (lines 598-599).  failed is history:
\* whether the last worker that ended raised.
RefreshRaises ==
    /\ refreshers.working > 0
    /\ refreshers' = [refreshers EXCEPT !.working = @ - 1,
                                        !.finishing = @ + 1,
                                        !.failed = TRUE]
    /\ UNCHANGED <<now, view, redis, traffic_stats_cache,
                   online_clients_cache, clients_cache, cache_refresh_state,
                   readers>>

\* A variant whose finally clause leaves the flag as it is, against which
\* the clearing of the flag is tried.
RefreshFinallyKeepsFlag ==
    /\ refreshers.finishing > 0
    /\ refreshers' = [refreshers EXCEPT !.finishing = @ - 1]
    /\ UNCHANGED <<now, view, redis, traffic_stats_cache,
                   online_clients_cache, clients_cache, readers,
                   cache_refresh_state>>

\* The finally clause of _runner, lines 601-607.
RefreshFinally ==
    /\ refreshers.finishing > 0
    /\ cache_refresh_state' = WithFlag(cache_refresh_state, view.shows, FALSE)
    /\ refreshers' = [refreshers EXCEPT !.finishing = @ - 1,
                                        !.outdated = FALSE]
    /\ UNCHANGED <<now, view, redis, traffic_stats_cache,
                   online_clients_cache, clients_cache, readers>>

\* invalidate_live_stats_cache, called by the middleware between requests.
Invalidate(ok) ==
    /\ \A r \in Readers : readers[r].pc = "idle"
    /\ traffic_stats_cache' = << >>
    /\ online_clients_cache' = NoEntry
    /\ clients_cache' = NoEntry
    /\ redis' = RedisDelete(redis, RedisKeys, ok)
    /\ readers' = [r \in Readers |-> IdleReader]
    /\ refreshers' =
          [refreshers EXCEPT
             !.outdated = refreshers.working > 0 \/ refreshers.storing # << >>,
             !.tainted = IF view.redis_url /\ ok THEN {} ELSE @ \ {"local"}]
    /\ UNCHANGED <<now, view, cache_refresh_state>>

\* Time passes; redis drops the values whose time to live has run out.
Advance(d) ==
    /\ now + d <= view.horizon
    /\ now' = now + d
    /\ redis' = Restrict(redis, {k \in DOMAIN redis : now + d < redis[k].expires})
    /\ refreshers' =
          [refreshers EXCEPT
             !.tainted = IF \A k \in DOMAIN redis : now + d >= redis[k].expires
                         THEN @ \ {"redis"} ELSE @]
    /\ UNCHANGED <<view, traffic_stats_cache, online_clients_cache,
                   clients_cache, cache_refresh_state, readers>>

-----------------------------------------------------------------------------
(* The subscription rate limiter (backend/main.py).                        *)
(* Both subscription handlers are coroutines of the one event loop and     *)
(* call the limiter without awaiting anything, so a call runs from its     *)
(* clock read to its return before the next call starts.                   *)

DefaultSubRateLimitCount == 30
DefaultSubRateLimitWindowSec == 60

\* f"{_get_client_ip(request)}:{resource_key}"
RateKey(ip, resource) == <<ip, ":", resource>>

RateKeys(l) == {RateKey(ip, resource) : ip \in l.ips, resource \in l.resources}

\* The clock steps that put a recorded request just inside, on the edge of
\* and just outside the window.
RateNaps(window) == {window - 1, window, window + 1}

\* while q and now - q[0] >= WINDOW: q.popleft()
RECURSIVE PopExpiredAtEdge(_, _, _)
PopExpiredAtEdge(q, t, window) ==
    IF q # << >> /\ t - Head(q) >= window
    THEN PopExpiredAtEdge(Tail(q), t, window)
    ELSE q

\* while q and now - q[0] > SUB_RATE_LIMIT_WINDOW_SEC: q.popleft()
RECURSIVE PopExpired(_, _, _)
PopExpired(q, t, window) ==
    IF q # << >> /\ t - Head(q) > window
    THEN PopExpired(Tail(q), t, window)
    ELSE q

\* subscription_rate_state[key] of the defaultdict: an empty deque for a key
\* that was never asked for.
RateQueue(key) ==
    IF key \in DOMAIN subscription_rate_state
    THEN subscription_rate_state[key]
    ELSE << >>

NoVerdict == [kind |-> "none"]
Allowed == [kind |-> "allowed", retry_after |-> 0]
Rejected(retry_after) == [kind |-> "rejected", retry_after |-> retry_after]

\* The timestamps of a sequence that are at most a window old at time t.
RECURSIVE Within(_, _, _)
Within(q, t, window) ==
    IF q = << >> THEN << >>
    ELSE IF t - Head(q) <= window
         THEN <<Head(q)>> \o Within(Tail(q), t, window)
         ELSE Within(Tail(q), t, window)

InitRate(explored) ==
    /\ limits \in explored
    /\ subscription_rate_state = << >>
    /\ admitted = [k \in RateKeys(limits) |-> << >>]
    /\ verdict = [k \in RateKeys(limits) |->
                    [returned |-> NoVerdict, at |-> 0, found |-> << >>,
                     prior |-> "none"]]

\* _check_subscription_rate_limit(request, resource_key)
CheckSubscriptionRateLimit(ip, resource) ==
    LET key == RateKey(ip, resource)
        found == RateQueue(key)
        q == PopExpired(found, now, limits.window)
        was == verdict[key].returned.kind
    IN  /\ IF Len(q) >= limits.count
           THEN /\ subscription_rate_state' =
                      (key :> q) @@ subscription_rate_state
                /\ verdict' =
                      [verdict EXCEPT ![key] =
                         [returned |->
                            Rejected(Max(1, limits.window - (now - q[1]))),
                          at |-> now, found |-> found, prior |-> was]]
                /\ UNCHANGED admitted
           ELSE /\ subscription_rate_state' =
                      (key :> Append(q, now)) @@ subscription_rate_state
                /\ verdict' =
                      [verdict EXCEPT ![key] =
                         [returned |-> Allowed, at |-> now, found |-> found,
                          prior |-> was]]
                /\ admitted' =
                      [admitted EXCEPT ![key] = Append(@, now)]
        /\ UNCHANGED <<now, limits>>

\* Time passes between two requests.
RateAdvance(d) ==
    /\ now + d <= limits.horizon
    /\ now' = now + d
    /\ admitted' =
          [k \in DOMAIN admitted |->
             Within(admitted[k], now + d, limits.window)]
    /\ UNCHANGED <<limits, subscription_rate_state, verdict>>

-----------------------------------------------------------------------------
(* The fan-out: ConnectionManager (backend/websocket_manager.py).          *)
(* Its methods run on the event loop; broadcast is the only one that       *)
(* awaits while it holds state of its own, at each send.                   *)

Sockets == {"w1", "w2", "w3"}

Channels == {"snapshot_delta", "server_status"}

\* channel=None
NoChannel == ""

NoSocket == ""

NoCast ==
    [pc |-> "idle", channel |-> NoChannel, si_used |-> 0, visited |-> {},
     current |-> NoSocket, disconnected |-> {}, sent |-> {}, fresh |-> {},
     due |-> {}]

InitFan ==
    /\ active_connections = {}
    /\ subscriptions = << >>
    /\ cast = NoCast

FanAtRest == InitFan

Casting == cast.pc = "send"

\* The sockets the broadcast still names.
Named == cast.visited \cup cast.disconnected \cup cast.sent \cup cast.due

\* if channel and channel not in self.subscriptions.get(connection, set())
Skips(channel, c) ==
    /\ channel # NoChannel
    /\ ~(c \in DOMAIN subscriptions /\ channel \in subscriptions[c])

\* connect, lines 22-24, after websocket.accept() returned.  A socket is a
\* new object: it is none of those a broadcast still names.
Connect(c) ==
    /\ c \notin active_connections
    /\ c \notin Named
    /\ active_connections' = active_connections \cup {c}
    /\ subscriptions' = (c :> {}) @@ subscriptions
    /\ cast' = IF Casting THEN [cast EXCEPT !.fresh = @ \cup {c}] ELSE cast

\* disconnect, lines 28-29.
Disconnect(c) ==
    /\ c \in active_connections
    /\ active_connections' = active_connections \ {c}
    /\ subscriptions' = Restrict(subscriptions, DOMAIN subscriptions \ {c})
    /\ cast' = IF Casting THEN [cast EXCEPT !.due = @ \ {c}] ELSE cast

\* subscribe, lines 33-35.
Subscribe(c, channel) ==
    /\ c \in DOMAIN subscriptions
    /\ subscriptions' = [subscriptions EXCEPT ![c] = @ \cup {channel}]
    /\ UNCHANGED <<active_connections, cast>>

\* unsubscribe, lines 39-41.
Unsubscribe(c, channel) ==
    /\ c \in DOMAIN subscriptions
    /\ subscriptions' = [subscriptions EXCEPT ![c] = @ \ {channel}]
    /\ cast' = IF Casting /\ channel = cast.channel
               THEN [cast EXCEPT !.due = @ \ {c}] ELSE cast
    /\ UNCHANGED active_connections

\* The for loop of broadcast from one step of the set iterator to the next
\* send or to the end of the method, lines 56-69.  The iterator raises
\* RuntimeError when the size of the set is no longer the one it started
\* with; otherwise it yields the members it has not passed in the order of
\* the hash table, which the model leaves open: members the filter skips
\* are passed before the next send in any number, and a member added since
\* the loop began may lie behind the iterator and never be yielded.
IterNext(c0) ==
    LET rest == active_connections \ c0.visited
        skipped == {c \in rest : Skips(c0.channel, c)}
    IN
    IF Cardinality(active_connections) # c0.si_used
    THEN /\ cast' = [c0 EXCEPT !.pc = "raised", !.current = NoSocket]
         /\ UNCHANGED <<active_connections, subscriptions>>
    ELSE \/ \E c \in rest \ skipped : \E passed \in SUBSET skipped :
              /\ cast' = [c0 EXCEPT !.pc = "send", !.current = c,
                                    !.visited = @ \cup passed \cup {c}]
              /\ UNCHANGED <<active_connections, subscriptions>>
         \/ /\ (rest \ skipped) \subseteq c0.fresh
            /\ cast' = [c0 EXCEPT !.pc = "done", !.current = NoSocket,
                                  !.visited = @ \cup skipped]
            /\ active_connections' = active_connections \ c0.disconnected
            /\ subscriptions' =
                  Restrict(subscriptions,
                           DOMAIN subscriptions \ c0.disconnected)

\* broadcast(message, channel) is called, lines 54-56.
Broadcast(channel) ==
    /\ ~Casting
    /\ IterNext([NoCast EXCEPT
                   !.channel = channel,
                   !.si_used = Cardinality(active_connections),
                   !.due = {c \in active_connections : ~Skips(channel, c)}])

\* connection.send_json(message) returned, line 62.
SendReturns ==
    /\ Casting
    /\ IterNext([cast EXCEPT !.sent = @ \cup {cast.current}])

\* connection.send_json(message) raised, lines 63-65.
SendRaises ==
    /\ Casting
    /\ IterNext([cast EXCEPT !.disconnected = @ \cup {cast.current}])

-----------------------------------------------------------------------------
(* The life cycle of the scheduler task: start and stop                    *)
(* (backend/services/collector.py).  Both are coroutines; stop suspends at *)
(* its await of the cancelled task, and other coroutines run meanwhile.    *)

NoTask == 0

InitLife ==
    /\ _task = NoTask
    /\ tasks = << >>
    /\ stops = {}

LifeAtRest == InitLife

\* The tasks that run the loop and have not been asked to end.
Alive == {t \in DOMAIN tasks : tasks[t] = "alive"}

otherCollectorVars ==
    <<cfg, env, loop, node_state, latest, polls, permits, listed, hist>>

\* start(), lines 48-52.
StartCall ==
    /\ IF running
       THEN UNCHANGED <<running, _task, tasks>>
       ELSE /\ Len(tasks) < MaxTasks
            /\ running' = TRUE
            /\ tasks' = Append(tasks, "alive")
            /\ _task' = Len(tasks) + 1
    /\ UNCHANGED <<stops, now, otherCollectorVars>>

\* stop() up to its await, lines 54-59: the flag is lowered, the task is
\* cancelled and awaited.
StopCall ==
    /\ running' = FALSE
    /\ IF _task # NoTask
       THEN /\ tasks' = [tasks EXCEPT ![_task] =
                           IF @ = "alive" THEN "cancelling" ELSE @]
            /\ stops' = stops \cup {_task}
       ELSE UNCHANGED <<tasks, stops>>
    /\ UNCHANGED <<_task, now, otherCollectorVars>>

\* stop() after its await, lines 60-62: the awaited task has ended.
StopResumes(t) ==
    /\ t \in stops
    /\ tasks[t] = "done"
    /\ _task' = NoTask
    /\ stops' = stops \ {t}
    /\ UNCHANGED <<running, tasks, now, otherCollectorVars>>

\* CancelledError reaches the task at its await and ends it (it is no
\* Exception, so line 97 does not catch it).
TaskCancelled(t) ==
    /\ t \in DOMAIN tasks
    /\ tasks[t] = "cancelling"
    /\ tasks' = [tasks EXCEPT ![t] = "done"]
    /\ UNCHANGED <<running, _task, stops, now, otherCollectorVars>>

\* while self._running, line 67: the task finds the flag lowered and returns.
TaskReturns(t) ==
    /\ t \in DOMAIN tasks
    /\ tasks[t] = "alive"
    /\ ~running
    /\ tasks' = [tasks EXCEPT ![t] = "done"]
    /\ UNCHANGED <<running, _task, stops, now, otherCollectorVars>>

-----------------------------------------------------------------------------
(* The HTTP middleware and its policy (backend/main.py).                   *)
(* A path is the sequence of its segments: /api/v1/nodes/1 is              *)
(* <<"api", "v1", "nodes", "1">>, and a trailing slash is an empty last    *)
(* segment.                                                                *)

Methods == {"GET", "POST", "PUT", "DELETE", "PATCH", "HEAD"}

Mutating == {"POST", "PUT", "DELETE", "PATCH"}

Paths ==
    {<<"health">>,
     <<"api", "v1", "health">>,
     <<"api", "v1", "auth", "mfa-status">>,
     <<"api", "v1", "sub", "u1">>,
     <<"api", "v1", "sub-grouped", "g1">>,
     <<"api", "v1", "nodes">>,
     <<"api", "v1", "nodes", "1">>,
     <<"api", "v1", "subscription-groups">>,
     <<"api", "v1", "subscription-groups", "1">>,
     <<"api", "v1", "inbounds", "batch-delete">>,
     <<"api", "v1", "clients", "batch-delete">>,
     <<"api", "v1", "clients", "c1">>,
     <<"api", "v1", "automation", "reset-all-traffic">>,
     <<"api", "v1", "servers", "1", "restart-xray">>,
     <<"api", "v1", "backup", "database", "1">>,
     <<"api", "v1", "traffic", "stats">>}

\* path.startswith(prefix + "/")
StartsWith(path, prefix) ==
    /\ Len(path) > Len(prefix)
    /\ SubSeq(path, 1, Len(prefix)) = prefix

\* path.endswith("/" + segment)
EndsWith(path, segment) ==
    /\ Len(path) >= 1
    /\ path[Len(path)] = segment

NoUser == ""
NoRole == ""
NoCode == ""
NoHeader == [scheme |-> "", username |-> "", password |-> ""]

\* The accounts PAM accepts, with their passwords.
Pam == [u \in {"viewer1", "operator1", "admin1", "both1"} |-> "pw"]

Headers ==
    {NoHeader,
     [scheme |-> "Bearer", username |-> "admin1", password |-> "pw"]}
    \cup {[scheme |-> "Basic", username |-> u, password |-> "pw"] :
            u \in DOMAIN Pam}
    \cup {[scheme |-> "Basic", username |-> "admin1", password |-> "guess"],
          [scheme |-> "Basic", username |-> "nobody", password |-> "pw"]}

Codes == {NoCode, "good", "bad"}

\* What a handler answers.
Replies == {200, 404, 500}

ROLE_VIEWERS == {"viewer1", "both1"}
ROLE_OPERATORS == {"operator1", "both1"}
ROLE_RANK == [viewer |-> 1, operator |-> 2, admin |-> 3]

\* The users that have a TOTP secret.
MFA_TOTP_USERS == {"viewer1", "operator1", "admin1"}

\* check_basic_auth_header; with an unchanging PAM its cache returns what
\* the computation returns.
CheckBasicAuthHeader(header) ==
    IF header = NoHeader THEN NoUser
    ELSE IF header.scheme # "Basic" THEN NoUser
    ELSE IF /\ header.username \in DOMAIN Pam
            /\ Pam[header.username] = header.password
         THEN header.username
         ELSE NoUser

\* verify_totp_code; "good" is the code pyotp accepts at the moment.
VerifyTotpCode(username, totp_code) ==
    IF ~settings.mfa_totp_enabled THEN TRUE
    ELSE IF totp_code = NoCode THEN FALSE
    ELSE IF username \notin MFA_TOTP_USERS THEN FALSE
    ELSE totp_code = "good"

GetUserRole(username) ==
    IF username \in ROLE_OPERATORS THEN "operator"
    ELSE IF username \in ROLE_VIEWERS THEN "viewer"
    ELSE "admin"

RoleRank(role) == IF role \in DOMAIN ROLE_RANK THEN ROLE_RANK[role] ELSE 0

HasMinRole(user_role, min_role) == RoleRank(user_role) >= RoleRank(min_role)

IsPublicEndpoint(path) ==
    \/ path = <<"health">>
    \/ path = <<"api", "v1", "health">>
    \/ path = <<"api", "v1", "auth", "mfa-status">>
    \/ StartsWith(path, <<"api", "v1", "sub">>)
    \/ StartsWith(path, <<"api", "v1", "sub-grouped">>)

RequiredRoleViewer(method, path) == "viewer"

RequiredRoleForRequest(method, path) ==
    IF /\ method = "POST"
       /\ StartsWith(path, <<"api", "v1", "servers">>)
       /\ EndsWith(path, "restart-xray")
    THEN "admin"
    ELSE IF /\ method = "POST"
            /\ path = <<"api", "v1", "automation", "reset-all-traffic">>
    THEN "admin"
    ELSE IF method = "POST" /\ path = <<"api", "v1", "inbounds", "batch-delete">>
    THEN "admin"
    ELSE IF method = "POST" /\ path = <<"api", "v1", "clients", "batch-delete">>
    THEN "admin"
    ELSE IF /\ method = "POST"
            /\ StartsWith(path, <<"api", "v1", "backup", "database">>)
    THEN "admin"
    ELSE IF method = "DELETE" /\ StartsWith(path, <<"api", "v1", "nodes">>)
    THEN "admin"
    ELSE IF /\ method = "DELETE"
            /\ StartsWith(path, <<"api", "v1", "subscription-groups">>)
    THEN "admin"
    ELSE IF method \in Mutating THEN "operator"
    ELSE "viewer"

NoExchange ==
    [done |-> FALSE, method |-> "", path |-> << >>, header |-> NoHeader,
     code |-> NoCode, auth_user |-> NoUser, auth_role |-> NoRole,
     auth_mfa_ok |-> FALSE, called |-> FALSE, status_code |-> 0,
     invalidated |-> FALSE]

\* A request that has arrived and is not dealt with yet.
Arrived(method, path, header, mfa_code) ==
    [NoExchange EXCEPT !.method = method, !.path = path, !.header = header,
                       !.code = mfa_code]

InitHttp(modes, requests) ==
    /\ settings \in modes
    /\ exchange \in requests

\* No request arrives.
HttpAtRest ==
    InitHttp({[read_only_mode |-> FALSE, mfa_totp_enabled |-> FALSE]},
             {NoExchange})

\* request_controls_and_audit_middleware for the request that has arrived;
\* reply is the status of the handler's response if the handler is called.
Middleware(reply) ==
    LET method == exchange.method
        path == exchange.path
        header == exchange.header
        mfa_code == exchange.code
        guarded == StartsWith(path, <<"api", "v1">>) /\ ~IsPublicEndpoint(path)
        auth_user == IF guarded THEN CheckBasicAuthHeader(header) ELSE NoUser
        auth_role == IF auth_user # NoUser THEN GetUserRole(auth_user)
                     ELSE NoRole
        auth_mfa_ok == auth_user # NoUser /\ VerifyTotpCode(auth_user, mfa_code)
        required_role == RequiredRoleForRequest(method, path)
        refusal == IF ~guarded THEN 0
                   ELSE IF auth_user = NoUser THEN 401
                   ELSE IF ~auth_mfa_ok THEN 401
                   ELSE IF ~HasMinRole(auth_role, required_role) THEN 403
                   ELSE 0
        read_only == /\ refusal = 0
                     /\ settings.read_only_mode
                     /\ method \in Mutating
                     /\ StartsWith(path, <<"api", "v1">>)
        called == refusal = 0 /\ ~read_only
        status_code == IF refusal # 0 THEN refusal
                       ELSE IF read_only THEN 403
                       ELSE reply
        invalidates == /\ status_code < 400
                       /\ method \in Mutating
                       /\ StartsWith(path, <<"api", "v1">>)
    IN  /\ exchange # NoExchange
        /\ ~exchange.done
        /\ exchange' =
              [done |-> TRUE, method |-> method, path |-> path,
               header |-> header, code |-> mfa_code, auth_user |-> auth_user,
               auth_role |-> auth_role, auth_mfa_ok |-> auth_mfa_ok,
               called |-> called, status_code |-> status_code,
               invalidated |-> invalidates]
        /\ IF invalidates
           THEN \E ok \in BOOLEAN : Invalidate(ok)
           ELSE UNCHANGED <<now, cacheVars>>
        /\ UNCHANGED settings

Next ==
    \/ Start /\ UNCHANGED <<cacheVars, rateVars, fanVars, lifeVars, httpVars>>
    \/ FetchNodesRaises /\ UNCHANGED <<cacheVars, rateVars, fanVars, lifeVars, httpVars>>
    \/ \E nodes \in SUBSET env.fleet : Tick(nodes) /\ UNCHANGED <<cacheVars, rateVars, fanVars, lifeVars, httpVars>>
    \/ GatherDone /\ UNCHANGED <<cacheVars, rateVars, fanVars, lifeVars, httpVars>>
    \/ \E d \in env.naps : Sleep(d) /\ UNCHANGED <<cacheVars, rateVars, fanVars, lifeVars, httpVars>>
    \/ \E i \in Ids : PollAcquire(i) /\ UNCHANGED <<cacheVars, rateVars, fanVars, lifeVars, httpVars>>
    \/ \E i \in Ids, reply \in env.panel :
          PollCollected(i, reply) /\ UNCHANGED <<cacheVars, rateVars, fanVars, lifeVars, httpVars>>
    \/ \E i \in Ids : BroadcastReturns(i) /\ UNCHANGED <<cacheVars, rateVars, fanVars, lifeVars, httpVars>>
    \/ \E i \in Ids : BroadcastRaises(i) /\ UNCHANGED <<cacheVars, rateVars, fanVars, lifeVars, httpVars>>
    \/ \E i \in Ids, raised \in BOOLEAN :
          SinkReturns(i, raised) /\ UNCHANGED <<cacheVars, rateVars, fanVars, lifeVars, httpVars>>

NextCache ==
    \/ \E r \in Readers, ok \in BOOLEAN :
          ReadBegins(r, ok) /\ UNCHANGED <<collectorVars, rateVars, fanVars, lifeVars, httpVars>>
    \/ \E r \in Readers : ReadLocal(r) /\ UNCHANGED <<collectorVars, rateVars, fanVars, lifeVars, httpVars>>
    \/ \E r \in Readers : StartCacheRefresh(r) /\ UNCHANGED <<collectorVars, rateVars, fanVars, lifeVars, httpVars>>
    \/ \E r \in Readers : ReturnStale(r) /\ UNCHANGED <<collectorVars, rateVars, fanVars, lifeVars, httpVars>>
    \/ \E r \in Readers, items \in Items :
          ComputeReturns(r, items) /\ UNCHANGED <<collectorVars, rateVars, fanVars, lifeVars, httpVars>>
    \/ \E r \in Readers, ok \in BOOLEAN :
          ComputeStores(r, ok) /\ UNCHANGED <<collectorVars, rateVars, fanVars, lifeVars, httpVars>>
    \/ \E r \in Readers : ComputeRaises(r) /\ UNCHANGED <<collectorVars, rateVars, fanVars, lifeVars, httpVars>>
    \/ \E items \in Items : RefreshReturns(items) /\ UNCHANGED <<collectorVars, rateVars, fanVars, lifeVars, httpVars>>
    \/ \E i \in 1..Len(refreshers.storing), ok \in BOOLEAN :
          RefreshStores(i, ok) /\ UNCHANGED <<collectorVars, rateVars, fanVars, lifeVars, httpVars>>
    \/ RefreshRaises /\ UNCHANGED <<collectorVars, rateVars, fanVars, lifeVars, httpVars>>
    \/ RefreshFinally /\ UNCHANGED <<collectorVars, rateVars, fanVars, lifeVars, httpVars>>
    \/ \E ok \in BOOLEAN : Invalidate(ok) /\ UNCHANGED <<collectorVars, rateVars, fanVars, lifeVars, httpVars>>
    \/ \E d \in view.naps : Advance(d) /\ UNCHANGED <<collectorVars, rateVars, fanVars, lifeVars, httpVars>>

NextRate ==
    \/ \E ip \in limits.ips, resource \in limits.resources :
          CheckSubscriptionRateLimit(ip, resource)
             /\ UNCHANGED <<collectorVars, cacheVars, fanVars, lifeVars, httpVars>>
    \/ \E d \in limits.naps :
          RateAdvance(d) /\ UNCHANGED <<collectorVars, cacheVars, fanVars, lifeVars, httpVars>>

\* The steps of the collector when a panel call can outlast the second.
NextStall ==
    \/ Next
    \/ \E d \in env.naps : Wait(d) /\ UNCHANGED <<cacheVars, rateVars, fanVars, lifeVars, httpVars>>

NextFan ==
    \/ \E c \in Sockets :
          Connect(c) /\ UNCHANGED <<now, collectorVars, cacheVars, rateVars, lifeVars, httpVars>>
    \/ \E c \in Sockets :
          Disconnect(c) /\ UNCHANGED <<now, collectorVars, cacheVars, rateVars, lifeVars, httpVars>>
    \/ \E c \in Sockets, channel \in Channels :
          Subscribe(c, channel)
             /\ UNCHANGED <<now, collectorVars, cacheVars, rateVars, lifeVars, httpVars>>
    \/ \E c \in Sockets, channel \in Channels :
          Unsubscribe(c, channel)
             /\ UNCHANGED <<now, collectorVars, cacheVars, rateVars, lifeVars, httpVars>>
    \/ \E channel \in Channels \cup {NoChannel} :
          Broadcast(channel)
             /\ UNCHANGED <<now, collectorVars, cacheVars, rateVars, lifeVars, httpVars>>
    \/ SendReturns /\ UNCHANGED <<now, collectorVars, cacheVars, rateVars, lifeVars, httpVars>>
    \/ SendRaises /\ UNCHANGED <<now, collectorVars, cacheVars, rateVars, lifeVars, httpVars>>

NextLife ==
    \/ StartCall /\ UNCHANGED <<cacheVars, rateVars, fanVars, httpVars>>
    \/ StopCall /\ UNCHANGED <<cacheVars, rateVars, fanVars, httpVars>>
    \/ \E t \in 1..MaxTasks :
          StopResumes(t) /\ UNCHANGED <<cacheVars, rateVars, fanVars, httpVars>>
    \/ \E t \in 1..MaxTasks :
          TaskCancelled(t) /\ UNCHANGED <<cacheVars, rateVars, fanVars, httpVars>>
    \/ \E t \in 1..MaxTasks :
          TaskReturns(t) /\ UNCHANGED <<cacheVars, rateVars, fanVars, httpVars>>

NextHttp ==
    \E reply \in Replies :
       /\ Middleware(reply)
       /\ UNCHANGED <<collectorVars, rateVars, fanVars, lifeVars>>

vars == <<now, collectorVars, cacheVars, rateVars, fanVars, lifeVars, httpVars>>

\* The cache tier at rest, as the collector's runs leave it.
CacheAtRest ==
    InitCache({[shows |-> [kind |-> "clients", group_by |-> ""],
                redis_url |-> FALSE, naps |-> {}, horizon |-> 0]})

\* The rate limiter at rest: no subscription request arrives.
RateAtRest ==
    InitRate({[count |-> DefaultSubRateLimitCount,
               window |-> DefaultSubRateLimitWindowSec,
               ips |-> {}, resources |-> {}, naps |-> {}, horizon |-> 0]})

\* Every accepted configuration, two nodes, every panel reply, a loop that
\* wakes up every second.
Init ==
    /\ InitCollector(AcceptedConfigs,
                     [fleet |-> {[id |-> 1, name |-> "a"],
                                 [id |-> 2, name |-> "b"]},
                      panel |-> PanelReplies,
                      naps |-> 1..MaxSleep,
                      horizon |-> MaxTime])
    /\ now = 0
    /\ CacheAtRest
    /\ RateAtRest
    /\ FanAtRest
    /\ LifeAtRest
    /\ HttpAtRest

Spec == Init /\ [][Next]_vars

\* The scenarios of the specification: the default configuration
\* (base 5 s, maximum 60 s, minimum 3 s), one node, over more than a
\* minute; the registry read of a pass takes the seconds that make the loop
\* wake up every ScenarioNap seconds.
InitScenario ==
    /\ InitCollector({DefaultConfig},
                     [fleet |-> {[id |-> 1, name |-> "a"]},
                      panel |-> {PanelRaises, PanelIdle, PanelBusy},
                      naps |-> {ScenarioNap},
                      horizon |-> ScenarioHorizon])
    /\ now = 0
    /\ CacheAtRest
    /\ RateAtRest
    /\ FanAtRest
    /\ LifeAtRest
    /\ HttpAtRest

SpecScenario == InitScenario /\ [][Next]_vars

\* The cache tier of a process that started at StartupTime: every view,
\* with and without redis; the collector is left out.
InitCacheTier ==
    /\ InitCollector({DefaultConfig},
                     [fleet |-> {}, panel |-> {}, naps |-> {}, horizon |-> 0])
    /\ now = StartupTime
    /\ InitCache({[shows |-> v, redis_url |-> u, naps |-> CacheNaps(v),
                   horizon |-> StartupTime + StaleTtl(v) + CacheSlack] :
                  v \in Views, u \in BOOLEAN})
    /\ RateAtRest
    /\ FanAtRest
    /\ LifeAtRest
    /\ HttpAtRest

SpecCache == InitCacheTier /\ [][NextCache]_vars

\* The steps of a refresh thread; the thread is scheduled until it ends, and
\* its upstream call returns or raises.
RefreshThread ==
    /\ \/ \E items \in Items : RefreshReturns(items)
       \/ \E i \in 1..Len(refreshers.storing), ok \in BOOLEAN :
             RefreshStores(i, ok)
       \/ RefreshRaises
       \/ RefreshFinally
    /\ UNCHANGED <<collectorVars, rateVars, fanVars, lifeVars, httpVars>>

\* The cache tier over the time an entry takes to turn stale and be
\* refreshed, with refresh threads that are scheduled until they end.
InitRefresh ==
    /\ InitCollector({DefaultConfig},
                     [fleet |-> {}, panel |-> {}, naps |-> {}, horizon |-> 0])
    /\ now = StartupTime
    /\ InitCache({[shows |-> v, redis_url |-> u, naps |-> {FreshTtl(v)},
                   horizon |-> StartupTime + 2 * FreshTtl(v) + CacheSlack] :
                  v \in Views, u \in BOOLEAN})
    /\ RateAtRest
    /\ FanAtRest
    /\ LifeAtRest
    /\ HttpAtRest

SpecRefresh == InitRefresh /\ [][NextCache]_vars /\ WF_vars(RefreshThread)

\* The limits a deployment can set, with the requests and the length of the
\* run explored for each: the test's limits and small ones with two client
\* addresses, the default limits with one.
Limits(count, window, ips) ==
    [count |-> count, window |-> window, ips |-> ips,
     resources |-> {"sub:test@example.com"},
     naps |-> RateNaps(window),
     horizon |-> StartupTime + 2 * window + RateSlack]

RateChoices ==
    {Limits(1, 2, {"10.0.0.5", "10.0.0.6"}),
     Limits(2, 2, {"10.0.0.5", "10.0.0.6"}),
     Limits(2, DefaultSubRateLimitWindowSec, {"10.0.0.5", "10.0.0.6"}),
     Limits(DefaultSubRateLimitCount, DefaultSubRateLimitWindowSec,
            {"10.0.0.5"})}

\* The rate limiter of a process that started at StartupTime; the collector
\* and the cache tier are left out.
InitRateLimiter ==
    /\ InitCollector({DefaultConfig},
                     [fleet |-> {}, panel |-> {}, naps |-> {}, horizon |-> 0])
    /\ now = StartupTime
    /\ CacheAtRest
    /\ InitRate(RateChoices)
    /\ FanAtRest
    /\ LifeAtRest
    /\ HttpAtRest

SpecRate == InitRateLimiter /\ [][NextRate]_vars

\* A request of any method to any path, with any header and code, in each of
\* the four modes of the process.
InitRequests ==
    /\ InitCollector({DefaultConfig},
                     [fleet |-> {}, panel |-> {}, naps |-> {}, horizon |-> 0])
    /\ now = 0
    /\ CacheAtRest
    /\ RateAtRest
    /\ FanAtRest
    /\ LifeAtRest
    /\ InitHttp([read_only_mode : BOOLEAN, mfa_totp_enabled : BOOLEAN],
                {Arrived(method, path, header, mfa_code) :
                   method \in Methods, path \in Paths, header \in Headers,
                   mfa_code \in Codes})

SpecHttp == InitRequests /\ [][NextHttp]_vars

\* One collector whose start and stop are called by any coroutines in any
\* order; what the loop does between its tests of the flag is left out.
InitLifeCycle ==
    /\ InitCollector({DefaultConfig},
                     [fleet |-> {}, panel |-> {}, naps |-> {}, horizon |-> 0])
    /\ now = 0
    /\ CacheAtRest
    /\ RateAtRest
    /\ FanAtRest
    /\ InitLife
    /\ HttpAtRest

SpecLife == InitLifeCycle /\ [][NextLife]_vars

\* The fan-out of a process that has just started; the rest is left out.
InitFanOut ==
    /\ InitCollector({DefaultConfig},
                     [fleet |-> {}, panel |-> {}, naps |-> {}, horizon |-> 0])
    /\ now = StartupTime
    /\ CacheAtRest
    /\ RateAtRest
    /\ InitFan
    /\ LifeAtRest
    /\ HttpAtRest

SpecFanout == InitFanOut /\ [][NextFan]_vars

\* The default configuration and two nodes whose panels answer or fail; a
\* pass of the loop (registry read and sleep) takes StallNap seconds, and a
\* panel call can block for as long.
InitStall ==
    /\ InitCollector({DefaultConfig},
                     [fleet |-> {[id |-> 1, name |-> "a"],
                                 [id |-> 2, name |-> "b"]},
                      panel |-> {PanelRaises, PanelIdle},
                      naps |-> {StallNap},
                      horizon |-> StallPasses * StallNap])
    /\ now = 0
    /\ CacheAtRest
    /\ RateAtRest
    /\ FanAtRest
    /\ LifeAtRest
    /\ HttpAtRest

SpecStall == InitStall /\ [][NextStall]_vars

\* The default configuration and a registry in which two rows carry the
\* same display name (the nodes table puts no constraint on name).
InitTwins ==
    /\ InitCollector({DefaultConfig},
                     [fleet |-> {[id |-> 1, name |-> "a"],
                                 [id |-> 3, name |-> "a"]},
                      panel |-> PanelReplies,
                      naps |-> 1..MaxSleep,
                      horizon |-> MaxTime])
    /\ now = 0
    /\ CacheAtRest
    /\ RateAtRest
    /\ FanAtRest
    /\ LifeAtRest
    /\ HttpAtRest

SpecTwins == InitTwins /\ [][Next]_vars

-----------------------------------------------------------------------------
(* Properties of the adaptive interval                                     *)

\* clamp(x, lo, hi): x held between lo and hi; the upper bound wins when a
\* configuration puts lo above hi.
Clamp(x, lo, hi) == Min(hi, Max(lo, x))

StateKeys == DOMAIN node_state

\* Poll i ran lines 109-131 in this step: it left the panel calls or the
\* fan-out and now waits for the sink.
PollRan(i) ==
    /\ i \in DOMAIN polls
    /\ polls[i].pc \in {"collect", "broadcast"}
    /\ i \in DOMAIN polls'
    /\ polls'[i].pc = "sink"

\* Poll i got its snapshot in this step.
PollGotSnapshot(i) ==
    /\ i \in DOMAIN polls
    /\ polls[i].pc = "collect"
    /\ i \in DOMAIN polls'
    /\ polls'[i].pc \in {"broadcast", "sink"}

\* Poll i handed a snapshot_delta message to the fan-out in this step.
PollPublished(i) ==
    /\ PollGotSnapshot(i)
    /\ polls'[i].pc = "broadcast"

\* C1: after every failed poll of a node the interval is
\* clamp(base * 2^min(f, 4), min_interval, max_interval), f the failure count
\* after the increment; it lies between min_interval and max_interval and
\* does not decrease from one consecutive failure to the next.
C1_FailureBackoffClamped ==
    [][\A i \in Ids :
         (PollRan(i) /\ ~polls'[i].snapshot.available) =>
            LET k == polls[i].key
                f == node_state'[k].failures
                new == node_state'[k].interval
            IN /\ f = node_state[k].failures + 1
               /\ new = Clamp(cfg.base_interval_sec * Pow2(Min(f, 4)),
                              cfg.min_interval_sec, cfg.max_interval_sec)
               /\ cfg.min_interval_sec <= new
               /\ new <= cfg.max_interval_sec
               /\ (node_state[k].failures >= 1 => new >= node_state[k].interval)
      ]_vars

\* C2 as stated: with base 5 and maximum 60, the failed polls of a row give
\* the intervals 5, 10, 20, and the fourth gives 40.
C2_BackoffScenarioAsStated ==
    \A k \in StateKeys :
        /\ node_state[k].failures = 1 => node_state[k].interval = 5
        /\ node_state[k].failures = 2 => node_state[k].interval = 10
        /\ node_state[k].failures = 3 => node_state[k].interval = 20
        /\ node_state[k].failures = 4 => node_state[k].interval = 40

\* C2 amended: with base 5 and maximum 60, the failed polls of a row give
\* the intervals 10, 20, 40, and every further one 60 (80 capped at the
\* maximum); the interval keeps its value until the node's next poll ends.
C2_BackoffScenario ==
    \A k \in StateKeys :
        /\ node_state[k].failures = 1 => node_state[k].interval = 10
        /\ node_state[k].failures = 2 => node_state[k].interval = 20
        /\ node_state[k].failures = 3 => node_state[k].interval = 40
        /\ node_state[k].failures >= 4 => node_state[k].interval = 60

C2_FourFailuresSeen ==
    \E k \in StateKeys :
        node_state[k].failures = 4 /\ node_state[k].interval = 60

ScenarioBoost(n) == 1 + (n - 1) \div 3

\* C4: with base 5, a newly discovered node whose first n <= 9 polls were
\* all successful with identical content has, after the n-th, the boost
\* 1,1,1,2,2,2,3,3,3 and the interval 5,5,5,10,10,10,15,15,15.
C4_StableScenario ==
    \A k \in StateKeys :
        (/\ hist[k].polls \in 1..9
         /\ hist[k].streak = hist[k].polls
         /\ \A i \in DOMAIN polls : polls[i].key # k)
        => /\ StableBoost(node_state[k].stable_cycles)
                = ScenarioBoost(hist[k].polls)
           /\ node_state[k].interval = 5 * ScenarioBoost(hist[k].polls)

\* C5: a successful poll that returns the content of the successful poll
\* before it publishes no snapshot_delta, counts as a stable cycle and does
\* not lower the interval, which stays at or below max_interval.
C5_NoDeltaWhileIdentical ==
    [][\A i \in Ids :
         (/\ PollGotSnapshot(i)
          /\ polls'[i].snapshot.available
          /\ hist[polls[i].key].streak >= 1
          /\ SameContent(polls'[i].snapshot,
                         node_state[polls[i].key].last_hash))
         => LET k == polls[i].key IN
            /\ ~PollPublished(i)
            /\ node_state'[k].stable_cycles = node_state[k].stable_cycles + 1
            /\ node_state'[k].interval >= node_state[k].interval
            /\ node_state'[k].interval <= cfg.max_interval_sec
      ]_vars

\* C6: when a node has N >= 1 stable cycles and its next successful poll
\* returns other content, that poll publishes one snapshot_delta and sets
\* stable_cycles to 0; the poll after it, with the new content again,
\* publishes nothing.
C6_OneDeltaPerChange ==
    [][\A i \in Ids :
         (PollGotSnapshot(i) /\ polls'[i].snapshot.available) =>
            LET k == polls[i].key
                same == SameContent(polls'[i].snapshot,
                                    node_state[k].last_hash)
            IN /\ (hist[k].streak >= 2 /\ ~same)
                    => (PollPublished(i) /\ node_state'[k].stable_cycles = 0)
               /\ (hist[k].streak = 1 /\ hist[k].prior >= 2 /\ same)
                    => ~PollPublished(i)
      ]_vars

\* C7: every PerNodeState has min_interval <= interval <= max_interval.
C7_IntervalWithinBounds ==
    \A k \in StateKeys :
        /\ cfg.min_interval_sec <= node_state[k].interval
        /\ node_state[k].interval <= cfg.max_interval_sec

\* latest_snapshot(): the nodes of the table.
LatestSnapshotKeys == DOMAIN latest.nodes

\* C8: a node that the last registry read did not list has neither a
\* PerNodeState nor an entry in the latest-snapshot table: the pass that
\* read the registry deleted both, and no poll brings the entry back before
\* the registry lists the node again.
C8_UnlistedNodeIsGone ==
    /\ StateKeys \subseteq listed
    /\ LatestSnapshotKeys \subseteq listed

\* Polls have filled the table, and a registry read that listed no node has
\* emptied it.
C8_EntriesWereDropped ==
    /\ latest.timestamp # NoTimestamp
    /\ LatestSnapshotKeys = {}
    /\ listed = {}

-----------------------------------------------------------------------------
(* Properties of the cache tier.                                           *)

\* A fetch has stored an entry for the view and no store is half way.
EntryStored(v) ==
    /\ IF v.kind = "traffic"
       THEN v.group_by \in DOMAIN traffic_stats_cache
       ELSE LocalEntry(v).ts > 0
    /\ refreshers.storing = << >>
    /\ \A r \in Readers : readers[r].pc # "store"

Age(v) == now - LocalEntry(v).ts

\* The reader r takes the step that consults the local entry.
Consults(r) == readers[r].pc = "local" /\ readers'[r].pc # "local"

\* C9: for every view and every payload, the empty one included, a read
\* that finds a stored entry younger than the fresh TTL returns the cached
\* payload and does not call upstream.
C9_FreshReadServedFromCache ==
    [][\A r \in Readers :
         (Consults(r) /\ EntryStored(view.shows)
            /\ Age(view.shows) < FreshTtl(view.shows))
         => /\ readers'[r].pc = "idle"
            /\ readers'[r].result = Returned(LocalEntry(view.shows).data)]_vars

\* C10: for every view and every cached payload, the empty list included, a
\* read that finds a stored entry of an age from the fresh TTL up to the
\* stale TTL does not compute upstream itself: it goes on to return the
\* entry it found.
C10_StaleReadServedFromCache ==
    [][\A r \in Readers :
         (Consults(r) /\ EntryStored(view.shows)
            /\ Age(view.shows) >= FreshTtl(view.shows)
            /\ Age(view.shows) < StaleTtl(view.shows))
         => /\ readers'[r].pc = "refresh"
            /\ readers'[r].cached = LocalEntry(view.shows)]_vars

\* The refresh threads between the setting of their flag and its clearing.
RefreshesInFlight ==
    refreshers.working + Len(refreshers.storing) + refreshers.finishing

\* The in-progress flags that are set: groupings of the traffic statistics
\* and the two other keys.
FlagsSet ==
    {[kind |-> "traffic", group_by |-> g] : g \in cache_refresh_state.traffic}
      \cup {v \in Views : v.kind # "traffic" /\ cache_refresh_state[v.kind]}

\* C11: every cache key has at most one background refresh in flight, and
\* the in-progress flag of a key is set exactly while its refresh is in
\* flight.
C11_SingleRefreshInFlight ==
    /\ RefreshesInFlight <= 1
    /\ FlagsSet = IF RefreshesInFlight = 0 THEN {} ELSE {view.shows}

\* A read of a stale entry arrives at the flag while the refresh that an
\* earlier read started is still computing.
C11_ReadFindsRefreshInFlight ==
    \E r \in Readers :
        /\ readers[r].pc = "refresh"
        /\ FlagSet(view.shows)
        /\ refreshers.working = 1

\* The reader r starts a refresh thread in this step.
StartsRefresh(r) ==
    /\ readers[r].pc = "refresh"
    /\ readers'[r].pc = "return"
    /\ refreshers'.working = refreshers.working + 1

\* C12: the reads of one stale entry trigger at most one background
\* recomputation of it: a read starts a refresh only of the entry it looked
\* up, never of an entry that a refresh has replaced between the read's
\* lookup and its test of the flag.
C12_OneRefreshPerStaleEntry ==
    [][\A r \in Readers :
         StartsRefresh(r) => LocalEntry(view.shows) = readers[r].cached]_vars

-----------------------------------------------------------------------------
(* Properties of the scheduler and of the polls.                           *)

\* The polls that hold a permit: past the semaphore and not yet ended.
Outstanding == {i \in DOMAIN polls : polls[i].pc # "sem"}

\* C13: at most max_parallel_polls polls are past the semaphore and not yet
\* ended, however many nodes are due in a tick.
C13_OutstandingPollsBounded ==
    /\ Cardinality(Outstanding) <= cfg.max_parallel_polls
    /\ running => permits + Cardinality(Outstanding) = cfg.max_parallel_polls

\* More nodes are due than there are permits: one poll waits at the
\* semaphore while the permits are all taken.
C13_PollWaitsForPermit ==
    /\ permits = 0
    /\ Cardinality(Outstanding) = cfg.max_parallel_polls
    /\ \E i \in DOMAIN polls : polls[i].pc = "sem"

\* Poll i, which holds a snapshot, ends in this step.
PollEnds(i) ==
    /\ i \in DOMAIN polls
    /\ polls[i].pc \in {"broadcast", "sink"}
    /\ i \notin DOMAIN polls'

\* C14: every poll that has obtained a snapshot, of a success or of a
\* failure, ends by way of the sink: on_snapshot has been called with the
\* snapshot, and whether it returned or raised the poll then replaces the
\* node's entry of the table and the table's time stamp, with next_poll
\* advanced.
C14_EveryOutcomeReachesSinkAndTable ==
    [][\A i \in Ids :
         PollEnds(i) =>
            LET k == polls[i].key IN
            /\ polls[i].pc = "sink"
            /\ k \in DOMAIN latest'.nodes
            /\ latest'.nodes[k] = polls[i].snapshot
            /\ latest'.timestamp = now
            /\ node_state'[k].next_poll = now + node_state'[k].interval
      ]_vars

\* C15: a registry read that raises does not end the loop, creates,
\* changes and deletes no PerNodeState and no entry of the table, issues no
\* poll, and leaves the loop before the sleep after which the registry is
\* read again.
C15_FailedRegistryReadIsRetried ==
    [][/\ FetchNodesRaises =>
            /\ running'
            /\ loop' = "caught"
            /\ UNCHANGED <<node_state, latest, polls, permits>>
       /\ (loop = "caught" /\ loop' # "caught") =>
            /\ loop' = "fetch"
            /\ UNCHANGED <<node_state, latest, polls, permits>>
      ]_vars

\* A registry read has failed after polls had filled the table, and the
\* loop waits for its next pass with the states and the entries in place.
C15_ReadFailedWithStateKept ==
    /\ loop = "caught"
    /\ running
    /\ StateKeys # {}
    /\ LatestSnapshotKeys = StateKeys
    /\ polls = << >>

-----------------------------------------------------------------------------
(* Properties of the distributed cache.                                    *)

\* Redis is configured and holds a live value under the key of the view.
RedisHolds(v) ==
    /\ view.redis_url
    /\ RedisKey(v) \in DOMAIN redis
    /\ now < redis[RedisKey(v)].expires

LocalTier == <<traffic_stats_cache, online_clients_cache, clients_cache,
               cache_refresh_state, refreshers>>

-----------------------------------------------------------------------------
(* Properties of the subscription rate limiter                             *)

\* The call of the step, if the step is a call for key k.
Called(k) == verdict'[k] # verdict[k]

\* q is what is left of p after entries were taken from its left end.
LeftOver(q, p) == \E n \in 0..Len(p) : q = SubSeq(p, n + 1, Len(p))

\* C17: for each key (client address, resource), at most SUB_RATE_LIMIT_COUNT
\* requests are allowed with timestamps in any window of
\* SUB_RATE_LIMIT_WINDOW_SEC seconds; a request that finds COUNT requests
\* allowed in the window that ends at its own timestamp is rejected with
\* retry_after >= 1 and is not recorded; a request that finds fewer, as it
\* does once the oldest recorded one is more than a window old, is allowed
\* and recorded; the requests of another key do not count.
C17_RateLimitPerKey ==
    [][\A k \in RateKeys(limits) :
         /\ Len(admitted'[k]) <= limits.count
         /\ Called(k) =>
              /\ \A other \in RateKeys(limits) \ {k} :
                    /\ ~Called(other)
                    /\ RateQueue(other)' = RateQueue(other)
              /\ Len(admitted[k]) >= limits.count =>
                    /\ verdict'[k].returned.kind = "rejected"
                    /\ verdict'[k].returned.retry_after >= 1
                    /\ LeftOver(RateQueue(k)', RateQueue(k))
                    /\ admitted'[k] = admitted[k]
              /\ Len(admitted[k]) < limits.count =>
                    /\ verdict'[k].returned = Allowed
                    /\ RateQueue(k)' # << >>
                    /\ RateQueue(k)'[Len(RateQueue(k)')] = now
              /\ (RateQueue(k) # << >> /\ now - RateQueue(k)[1] > limits.window)
                    => verdict'[k].returned = Allowed
      ]_vars

\* A request was rejected while COUNT earlier ones were in the window, and
\* the next one of the same key was allowed after the oldest had left it,
\* while the other key had requests of its own allowed.
C17_RejectedThenAllowedAgain ==
    \E k \in RateKeys(limits) :
       /\ verdict[k].returned = Allowed
       /\ verdict[k].prior = "rejected"
       /\ Len(verdict[k].found) = limits.count
       /\ verdict[k].at - verdict[k].found[1] > limits.window
       /\ \E other \in RateKeys(limits) \ {k} : admitted[other] # << >>

-----------------------------------------------------------------------------
(* Properties of the tick while a poll is outstanding                      *)

\* Key k has a poll of the current gather that has not ended.
HasPoll(k) == \E j \in DOMAIN polls : polls[j].key = k

\* C20: the tick waits for the dispatch of the due polls and not for their
\* completion: while the panel call of one node's poll is blocked, another
\* node that became due after that poll started is polled by the next pass
\* of the loop, so that it is never overdue by more than one pass without
\* a poll of its own.
C20_DueNodePolledWhileOtherBlocked ==
    \A i \in DOMAIN polls : \A k \in DOMAIN node_state :
        ( /\ polls[i].pc = "collect"
          /\ polls[i].key # k
          /\ ~HasPoll(k)
          /\ polls[i].started < node_state[k].next_poll )
        => \A d \in env.naps : now <= node_state[k].next_poll + d

-----------------------------------------------------------------------------
(* Properties of the polls of one key                                      *)

\* C21: for every state key at most one poll is in flight at any time, for
\* every registry content, listings in which two descriptors share a display
\* name included.
C21_OnePollInFlightPerKey ==
    \A i \in DOMAIN polls : \A j \in DOMAIN polls :
        polls[i].key = polls[j].key => i = j

-----------------------------------------------------------------------------
(* Properties of the delta messages                                        *)

\* The tracked fields in which two snapshots differ.
Differing(previous, snapshot) ==
    {f \in {"available", "xray_running", "cpu", "online_clients",
            "traffic_total"} : previous[f] # snapshot[f]}

\* C22: every published delta message has type "snapshot_delta", goes to
\* channel "snapshot_delta" and carries the node identity and the new
\* snapshot; when the table holds a previous entry for the node its changes
\* map has exactly the tracked fields whose value differs between that entry
\* and the new snapshot, each as {old, new}; without a previous entry the
\* message has no changes map.
C22_DeltaMessageContent ==
    [][\A i \in Ids :
         PollPublished(i) =>
            LET m == polls'[i].message
                k == polls[i].key
                snapshot == polls'[i].snapshot
            IN  /\ m.type = "snapshot_delta"
                /\ m.channel = "snapshot_delta"
                /\ m.data.node = k
                /\ m.data.snapshot = snapshot
                /\ snapshot.name = polls[i].node.name
                /\ snapshot.node_id = i
                /\ (k \in DOMAIN latest.nodes) =>
                      /\ "changes" \in DOMAIN m.data
                      /\ DOMAIN m.data.changes =
                            Differing(latest.nodes[k], snapshot)
                      /\ \A f \in DOMAIN m.data.changes :
                            m.data.changes[f] =
                               [old |-> latest.nodes[k][f],
                                new |-> snapshot[f]]
                /\ (k \notin DOMAIN latest.nodes) =>
                      "changes" \notin DOMAIN m.data
      ]_vars

\* A message is with the fan-out whose changes map names some of the tracked
\* fields and not all of them.
C22_DeltaWithSomeChanges ==
    \E i \in DOMAIN polls :
       /\ polls[i].pc = "broadcast"
       /\ "changes" \in DOMAIN polls[i].message.data
       /\ DOMAIN polls[i].message.data.changes # {}
       /\ DOMAIN polls[i].message.data.changes # DeltaTrackedFields

-----------------------------------------------------------------------------
(* Properties of a failed refresh                                          *)

\* The worker of a refresh thread raised in this step.
WorkerRaised ==
    /\ refreshers'.working = refreshers.working - 1
    /\ refreshers'.storing = refreshers.storing

\* C23: when the worker of a background refresh raises, the entry of its
\* key (and the value redis holds) is left as it was and the thread goes on
\* to its finally clause, which clears the in-progress flag; every flag that
\* is set is cleared in the end.
C23_FailedRefreshClearsFlag ==
    /\ [][/\ WorkerRaised =>
               /\ UNCHANGED <<traffic_stats_cache, online_clients_cache,
                              clients_cache, redis>>
               /\ FlagSet(view.shows)'
               /\ refreshers'.finishing = refreshers.finishing + 1
          /\ (refreshers'.finishing = refreshers.finishing - 1) =>
               ~FlagSet(view.shows)'
         ]_vars
    /\ FlagSet(view.shows) ~> ~FlagSet(view.shows)

\* A refresh failed and ended, a read of the entry it left in place has
\* returned that entry's payload, and the refresh which that read started
\* is computing.
C23_RefreshStartedAfterFailure ==
    /\ refreshers.failed
    /\ refreshers.working = 1
    /\ refreshers.finishing = 0
    /\ FlagSet(view.shows)
    /\ \E r \in Readers :
          /\ readers[r].pc = "idle"
          /\ readers[r].result = Returned(LocalEntry(view.shows).data)
          /\ Truthy(LocalEntry(view.shows).data)

-----------------------------------------------------------------------------
(* Properties of the hand-over to the fan-out                              *)

\* Poll i, which had handed its message to the fan-out, moves in this step.
LeavesFanOut(i) ==
    /\ i \in DOMAIN polls
    /\ polls[i].pc = "broadcast"
    /\ (i \in DOMAIN polls') => polls'[i] # polls[i]

\* C24: publishing is fire-and-forget: whatever happens in the fan-out (no
\* subscriber, a send that fails, connections that come and go during the
\* broadcast), the poll that detected the change goes on: it records the
\* fingerprint, sets next_poll to now + interval and waits for the sink,
\* after which it replaces the table entry.
C24_PublishIsFireAndForget ==
    [][\A i \in Ids :
         LeavesFanOut(i) =>
            LET k == polls[i].key IN
            /\ i \in DOMAIN polls'
            /\ polls'[i].pc = "sink"
            /\ node_state'[k].last_hash = polls[i].curr_hash
            /\ node_state'[k].next_poll = now + node_state'[k].interval
      ]_vars

-----------------------------------------------------------------------------
(* Properties of the upstream computations                                 *)

\* The upstream computations of the view's key that have started and not
\* ended: those of the requests and those of the refresh threads.
UpstreamInProgress ==
    Cardinality({r \in Readers : readers[r].pc = "compute"})
       + refreshers.working

\* C25: for each cache key at most one upstream computation of its value is
\* in progress at any time, the synchronous computations of a miss or of an
\* expired entry and the background refreshes counted together.
C25_OneUpstreamComputationPerKey == UpstreamInProgress <= 1

-----------------------------------------------------------------------------
(* Properties of the fan-out                                               *)

\* The broadcast has ended, by its return or by an exception.
CastEnded == cast.pc \in {"done", "raised"}

\* C26: after any sequence of connect, disconnect, subscribe, unsubscribe
\* and broadcast the keys of subscriptions are the active connections; a
\* broadcast sends only to connections subscribed to its channel (to any
\* connection when it has no channel) and has, when it ends, sent to every
\* connection that was active and subscribed from its start to its end; and
\* every connection whose send raised is, at the end of that broadcast, in
\* neither active_connections nor subscriptions.
C26_FanOutBookkeeping ==
    /\ DOMAIN subscriptions = active_connections
    /\ CastEnded =>
          /\ cast.due \subseteq cast.sent \cup cast.disconnected
          /\ cast.disconnected \cap active_connections = {}
          /\ cast.disconnected \cap DOMAIN subscriptions = {}

-----------------------------------------------------------------------------
(* Properties of availability changes                                      *)

\* Poll i got a snapshot whose availability is not that of the node's entry
\* in the table, which the poll goes on to replace.
AvailabilityChanges(i) ==
    /\ PollGotSnapshot(i)
    /\ polls[i].key \in DOMAIN latest.nodes
    /\ latest.nodes[polls[i].key].available # polls'[i].snapshot.available

\* C27: whenever a poll replaces a node's table entry with a snapshot whose
\* availability differs from the previous entry's, in either direction, it
\* publishes a snapshot_delta message whose changes map carries the
\* availability change.
C27_AvailabilityChangePublished ==
    [][\A i \in Ids :
         AvailabilityChanges(i) =>
            /\ PollPublished(i)
            /\ "changes" \in DOMAIN polls'[i].message.data
            /\ "available" \in DOMAIN polls'[i].message.data.changes
            /\ polls'[i].message.data.changes["available"] =
                  [old |-> latest.nodes[polls[i].key].available,
                   new |-> polls'[i].snapshot.available]
      ]_vars

-----------------------------------------------------------------------------
(* Properties of the invalidation                                          *)

\* The request of reader r is answered in this step from redis, or from a
\* local entry that is fresh.
ServedFromRedis(r) ==
    /\ readers[r].pc = "idle"
    /\ readers'[r].pc = "idle"
    /\ readers'[r] # readers[r]
    /\ readers'[r].result.kind = "value"

ServedFreshFromLocal(r) ==
    /\ readers[r].pc = "local"
    /\ readers'[r].pc = "idle"

\* C28: once invalidate_live_stats_cache has run, no read returns a payload
\* whose upstream computation started before the invalidation, a refresh in
\* flight at the invalidation included: no read is answered from a tier
\* that such a computation has written since.
C28_NoPayloadFromBeforeInvalidation ==
    [][\A r \in Readers :
         /\ ServedFromRedis(r) => "redis" \notin refreshers.tainted
         /\ ServedFreshFromLocal(r) => "local" \notin refreshers.tainted
      ]_vars

-----------------------------------------------------------------------------
(* Properties of start and stop                                            *)

\* C29: under any interleaving of start() and stop() at most one loop task
\* is alive, every task that is alive is the one stop() would cancel, and
\* when the flag is lowered and no stop() is still awaiting, no loop task is
\* left that runs or is yet to end.
C29_OneLoopTaskWithinReachOfStop ==
    /\ Cardinality(Alive) <= 1
    /\ \A t \in Alive : (stops = {}) => _task = t
    /\ (~running /\ stops = {}) => \A t \in DOMAIN tasks : tasks[t] = "done"

-----------------------------------------------------------------------------
(* Properties of the HTTP middleware                                       *)

\* The requests that need the admin role: deletion of a node or of a
\* subscription group, the batch deletes, the xray restart, the reset of all
\* traffic and the POST of a database backup.
AdminOnly ==
    {<<"DELETE", <<"api", "v1", "nodes", "1">>>>,
     <<"DELETE", <<"api", "v1", "subscription-groups", "1">>>>,
     <<"POST", <<"api", "v1", "inbounds", "batch-delete">>>>,
     <<"POST", <<"api", "v1", "clients", "batch-delete">>>>,
     <<"POST", <<"api", "v1", "servers", "1", "restart-xray">>>>,
     <<"POST", <<"api", "v1", "automation", "reset-all-traffic">>>>,
     <<"POST", <<"api", "v1", "backup", "database", "1">>>>}

PolicyRole(method, path) ==
    IF <<method, path>> \in AdminOnly THEN "admin"
    ELSE IF method \in Mutating THEN "operator"
    ELSE "viewer"

\* The request of the last exchange may reach its handler.
Entitled ==
    LET user == CheckBasicAuthHeader(exchange.header)
    IN  /\ user # NoUser
        /\ VerifyTotpCode(user, exchange.code)
        /\ ROLE_RANK[GetUserRole(user)]
              >= ROLE_RANK[PolicyRole(exchange.method, exchange.path)]
        /\ ~(settings.read_only_mode /\ exchange.method \in Mutating)

\* C30: a request for a non-public /api/v1 path reaches its handler only if
\* its header authenticates a user, the TOTP check passes, the role of the
\* user has at least the rank the policy demands and read-only mode does not
\* block the method; otherwise the handler is not called, the status is 401
\* or 403 and the live-stats caches are not invalidated.
C30_HandlerOnlyForEntitledRequests ==
    (/\ exchange.done
     /\ StartsWith(exchange.path, <<"api", "v1">>)
     /\ ~IsPublicEndpoint(exchange.path))
    => /\ exchange.called => Entitled
       /\ ~Entitled => /\ ~exchange.called
                       /\ exchange.status_code \in {401, 403}
                       /\ ~exchange.invalidated

\* An operator with a valid code is refused the deletion of a node while
\* multi-factor authentication is on.
C30_OperatorRefusedNodeDeletion ==
    /\ exchange.done
    /\ settings.mfa_totp_enabled
    /\ exchange.method = "DELETE"
    /\ exchange.path = <<"api", "v1", "nodes", "1">>
    /\ exchange.auth_role = "operator"
    /\ exchange.auth_mfa_ok
    /\ ~exchange.called
    /\ exchange.status_code = 403

=============================================================================
